---- MODULE Spec2Model ----
(***************************************************************************)
(* RedisLite: an in-memory key-value store whose map is owned by a single  *)
(* worker thread.  Callers append commands to a mutex-protected queue and  *)
(* notify a condition variable; the worker dequeues one command at a time, *)
(* reads the steady clock and applies the command to the store.  A get     *)
(* waits on the future of the promise carried by its command.              *)
(*                                                                         *)
(* Time is counted in clock ticks, TicksPerSecond of them to the second,   *)
(* so that std::chrono::seconds(ttl) is a conversion and not the identity. *)
(* The steady clock is seen only through the worker's readings, each of    *)
(* them at or after the one before.                                        *)
(*                                                                         *)
(* A caller's lock_guard block is one step (it holds the mutex for a       *)
(* single push); the worker's hold of the mutex spans two steps.  The      *)
(* destructor is followed up to the return of worker.join(); the           *)
(* destruction of the members after it is not part of the model, and no    *)
(* call starts once join has returned.                                     *)
(***************************************************************************)
EXTENDS Integers, Sequences, FiniteSets, TLC

\* ------------------------------------------------------------------ bounds
MaxCmds == 3            \* calls issued in one behaviour
MaxTime == 2            \* last reading of the steady clock
TicksPerSecond == 2     \* clock ticks to the second

\* ------------------------------------------------------------ input domains
Callers == {"t1", "t2"}
TTLs == {-1, 0, 1}

SET == "SET"
GET == "GET"
DEL == "DEL"
SET_TTL == "SET_TTL"
CommandType == {SET, GET, DEL, SET_TTL}

\* struct Command: result is the identity of the promise the command carries
Command(type, key, value, ttlSeconds, result) ==
    [type |-> type, key |-> key, value |-> value,
     ttlSeconds |-> ttlSeconds, result |-> result]

\* a default-constructed Command (Command cmd;) whose fields are not yet set
NoCmd == Command("NONE", "", "", 0, 0)

\* struct ValueEntry
ValueEntry(value, hasTTL, expireAt) ==
    [value |-> value, hasTTL |-> hasTTL, expireAt |-> expireAt]

\* the string get returns for an absent or expired key: set_value("")
NotFound == ""

VARIABLES
    store,          \* std::unordered_map<std::string, ValueEntry>
    commandQueue,   \* std::queue<Command>
    mutex,          \* owner of queueMutex: "none" or "worker"
    stop,           \* bool stop
    wpc,            \* position of the worker thread in workerLoop
    cmd,            \* workerLoop's local Command cmd
    clock,          \* the last reading of std::chrono::steady_clock
    cpc,            \* position of each caller thread
    ccmd,           \* the Command each caller has built
    dpc,            \* position of the thread running ~RedisLite
    slots,          \* shared state of each promise: times set, value
    enq,            \* history: commands in the order they were appended
    applied,        \* history: commands in the order the worker applied them
    appliedAt,      \* history: the worker's now at each application
    outcome,        \* history: "found" / "notfound" of each answered get
    returned,       \* history: promises of the calls that have returned
    pre,            \* history: calls that had returned when each command was appended
    enqAtStop,      \* history: number of appended commands when stop was set
    queueAtStop     \* history: length of the queue when stop was set

vars == <<store, commandQueue, mutex, stop, wpc, cmd, clock, cpc, ccmd, dpc,
          slots, enq, applied, appliedAt, outcome, returned, pre, enqAtStop,
          queueAtStop>>

histVars == <<enq, applied, appliedAt, outcome, returned, pre, enqAtStop,
              queueAtStop>>

\* ------------------------------------------------------------ the store
\* store.count(key) != 0
Has(s, key) == key \in DOMAIN s

\* variant: an entry that has an expiry keeps it when it is overwritten
PutKeepExpiry(s, key, entry) ==
    IF key \in DOMAIN s /\ s[key].hasTTL
    THEN (key :> [entry EXCEPT !.hasTTL = TRUE,
                               !.expireAt = s[key].expireAt]) @@ s
    ELSE (key :> entry) @@ s

\* variant: store.insert({key, entry}), which keeps an entry already there
PutIfAbsent(s, key, entry) == s @@ (key :> entry)

\* store[key] = entry
Put(s, key, entry) == (key :> entry) @@ s

\* variant: store.clear() where store.erase(key) was meant
EraseAll(s, key) == <<>>

\* store.erase(key)
Erase(s, key) == [k \in (DOMAIN s) \ {key} |-> s[k]]

\* std::chrono::seconds(ttlSeconds) in clock ticks
Seconds(ttlSeconds) == ttlSeconds * TicksPerSecond

\* case SET: the entry written
SetEntry(c) == ValueEntry(c.value, FALSE, 0)

\* variant: entry.hasTTL = cmd.ttlSeconds > 0, a ttl of 0 or less never expires
SetTTLEntryPositiveOnly(c, t) ==
    ValueEntry(c.value, c.ttlSeconds > 0, t + Seconds(c.ttlSeconds))

\* case SET_TTL: the entry written
SetTTLEntry(c, t) == ValueEntry(c.value, TRUE, t + Seconds(c.ttlSeconds))

\* variant: entry.hasTTL && now > entry.expireAt
ExpiredStrict(entry, t) == entry.hasTTL /\ t > entry.expireAt

\* entry.hasTTL && now >= entry.expireAt
Expired(entry, t) == entry.hasTTL /\ t >= entry.expireAt

\* variant: a get that finds its key expired erases every expired entry
GetStoreSweep(s, c, t) ==
    IF ~Has(s, c.key) THEN s
    ELSE IF Expired(s[c.key], t)
         THEN [k \in {x \in DOMAIN s : ~Expired(s[x], t)} |-> s[k]]
         ELSE s

\* variant: no store.count test, so that store[cmd.key] default-constructs
\* an entry for an absent key
GetStoreInserting(s, c, t) ==
    IF ~Has(s, c.key) THEN Put(s, c.key, ValueEntry("", FALSE, 0))
    ELSE IF Expired(s[c.key], t) THEN Erase(s, c.key) ELSE s

\* case GET: the store after the command
GetStore(s, c, t) ==
    IF ~Has(s, c.key) THEN s
    ELSE IF Expired(s[c.key], t) THEN Erase(s, c.key) ELSE s

\* case GET: the value handed to cmd.result.set_value
GetResult(s, c, t) ==
    IF ~Has(s, c.key) THEN NotFound
    ELSE IF Expired(s[c.key], t) THEN NotFound ELSE s[c.key].value

\* case GET: whether the value branch (entry.value) was taken
GetFound(s, c, t) == Has(s, c.key) /\ ~Expired(s[c.key], t)

\* variant: the worker drops every expired entry before it runs the switch
ApplyStoreSweep(s, c, t) ==
    LET live == [k \in {x \in DOMAIN s : ~Expired(s[x], t)} |-> s[k]]
    IN CASE c.type = SET -> Put(live, c.key, SetEntry(c))
         [] c.type = SET_TTL -> Put(live, c.key, SetTTLEntry(c, t))
         [] c.type = GET -> GetStore(live, c, t)
         [] c.type = DEL -> Erase(live, c.key)
         [] OTHER -> live

\* variant: case SET does store[cmd.key].value = cmd.value and so keeps the
\* hasTTL and expireAt of an entry already there
ApplyStoreKeepTTL(s, c, t) ==
    CASE c.type = SET ->
            IF Has(s, c.key)
            THEN Put(s, c.key, [s[c.key] EXCEPT !.value = c.value])
            ELSE Put(s, c.key, SetEntry(c))
      [] c.type = SET_TTL -> Put(s, c.key, SetTTLEntry(c, t))
      [] c.type = GET -> GetStore(s, c, t)
      [] c.type = DEL -> Erase(s, c.key)
      [] OTHER -> s

\* the switch of workerLoop: the store after command c applied at time t
ApplyStore(s, c, t) ==
    CASE c.type = SET -> Put(s, c.key, SetEntry(c))
      [] c.type = SET_TTL -> Put(s, c.key, SetTTLEntry(c, t))
      [] c.type = GET -> GetStore(s, c, t)
      [] c.type = DEL -> Erase(s, c.key)
      [] OTHER -> s

\* std::promise::set_value on the shared state of promise id
SetValue(sl, id, v) == [sl EXCEPT ![id] = [n |-> @.n + 1, val |-> v]]

\* std::chrono::steady_clock::now(): any time not before the last one read,
\* up to the horizon of the behaviour
SteadyNow(last, horizon) == last .. horizon

\* ------------------------------------------------------------ the queue
\* the predicate of cv.wait
\* variant: the predicate forgets stop
WaitPredNoStop == commandQueue # <<>>

WaitPred == stop \/ commandQueue # <<>>

\* variant: the command is put at the head of the queue
QueuePushFront(q, c) == <<c>> \o q

\* commandQueue.push(std::move(cmd))
QueuePush(q, c) == Append(q, c)

\* variant: the newest command is taken instead of the oldest
QueueFrontNewest(q) == q[Len(q)]

\* commandQueue.front()
QueueFront(q) == Head(q)

\* variant: the pop is left out and the front command stays in the queue
QueuePopNone(q) == q

\* variant: the worker empties the queue and keeps only the front command
QueuePopAll(q) == <<>>

\* commandQueue.pop()
QueuePop(q) == Tail(q)

\* variant: the notification is left out
NotifyOneLost(pc) == pc

\* cv.notify_one(): a thread parked in cv.wait is made runnable
NotifyOne(pc) == IF pc = "parked" THEN "lock" ELSE pc

\* ------------------------------------------------------------ initial state
Init ==
    /\ store = <<>>
    /\ commandQueue = <<>>
    /\ mutex = "none"
    /\ stop = FALSE
    /\ wpc = "lock"
    /\ cmd = NoCmd
    /\ clock = 0
    /\ cpc = [t \in Callers |-> "idle"]
    /\ ccmd = [t \in Callers |-> NoCmd]
    /\ dpc = "idle"
    /\ slots = <<>>
    /\ enq = <<>>
    /\ applied = <<>>
    /\ appliedAt = <<>>
    /\ outcome = <<>>
    /\ returned = {}
    /\ pre = <<>>
    /\ enqAtStop = 0
    /\ queueAtStop = 0

\* ------------------------------------------------------------ the worker
\* std::unique_lock<std::mutex> lock(queueMutex), and the re-lock of cv.wait
WorkerLock ==
    /\ wpc = "lock"
    /\ mutex = "none"
    /\ mutex' = "worker"
    /\ wpc' = "check"
    /\ UNCHANGED <<store, commandQueue, stop, cmd, clock, cpc, ccmd, dpc,
                   slots>>
    /\ UNCHANGED histVars

\* cv.wait: predicate false, the mutex is released and the thread parks
WorkerPark ==
    /\ wpc = "check"
    /\ ~WaitPred
    /\ mutex' = "none"
    /\ wpc' = "parked"
    /\ UNCHANGED <<store, commandQueue, stop, cmd, clock, cpc, ccmd, dpc,
                   slots>>
    /\ UNCHANGED histVars

\* a spurious wake-up of cv.wait
WorkerSpuriousWake ==
    /\ wpc = "parked"
    /\ wpc' = "lock"
    /\ UNCHANGED <<store, commandQueue, mutex, stop, cmd, clock, cpc,
                   ccmd, dpc, slots>>
    /\ UNCHANGED histVars

\* variant: if (stop) break;  the worker leaves without draining the queue
WorkerBreakOnStop ==
    /\ wpc = "check"
    /\ stop
    /\ mutex' = "none"
    /\ wpc' = "done"
    /\ UNCHANGED <<store, commandQueue, stop, cmd, clock, cpc, ccmd, dpc,
                   slots>>
    /\ UNCHANGED histVars

\* if (stop && commandQueue.empty()) break;
WorkerBreak ==
    /\ wpc = "check"
    /\ WaitPred
    /\ stop /\ commandQueue = <<>>
    /\ mutex' = "none"
    /\ wpc' = "done"
    /\ UNCHANGED <<store, commandQueue, stop, cmd, clock, cpc, ccmd, dpc,
                   slots>>
    /\ UNCHANGED histVars

\* variant: the unique_lock lives to the end of the loop body, so the mutex
\* stays locked while the command is applied
WorkerDequeueHolding ==
    /\ wpc = "check"
    /\ WaitPred
    /\ ~(stop /\ commandQueue = <<>>)
    /\ cmd' = QueueFront(commandQueue)
    /\ commandQueue' = QueuePop(commandQueue)
    /\ wpc' = "apply"
    /\ UNCHANGED <<store, mutex, stop, clock, cpc, ccmd, dpc, slots>>
    /\ UNCHANGED histVars

\* cmd = std::move(commandQueue.front()); commandQueue.pop(); unlock
WorkerDequeue ==
    /\ wpc = "check"
    /\ WaitPred
    /\ ~(stop /\ commandQueue = <<>>)
    /\ cmd' = QueueFront(commandQueue)
    /\ commandQueue' = QueuePop(commandQueue)
    /\ mutex' = "none"
    /\ wpc' = "apply"
    /\ UNCHANGED <<store, stop, clock, cpc, ccmd, dpc, slots>>
    /\ UNCHANGED histVars

\* variant: now is read at the top of the loop, before cv.wait, so that a
\* command is applied with the reading of the iteration before it
WorkerApplyStaleClock(horizon) ==
    /\ wpc = "apply"
    /\ \E now \in SteadyNow(clock, horizon) :
          /\ clock' = now
          /\ store' = ApplyStore(store, cmd, clock)
          /\ slots' = IF cmd.type = GET
                      THEN SetValue(slots, cmd.result,
                                    GetResult(store, cmd, clock))
                      ELSE slots
          /\ outcome' = IF cmd.type = GET
                        THEN [outcome EXCEPT ![cmd.result] =
                                IF GetFound(store, cmd, clock) THEN "found"
                                                             ELSE "notfound"]
                        ELSE outcome
          /\ appliedAt' = Append(appliedAt, now)
    /\ applied' = Append(applied, cmd)
    /\ cmd' = NoCmd
    /\ wpc' = "lock"
    /\ UNCHANGED <<commandQueue, mutex, stop, cpc, ccmd, dpc>>
    /\ UNCHANGED <<enq, returned, pre, enqAtStop, queueAtStop>>

\* auto now = steady_clock::now(); switch (cmd.type) { ... }; end of loop body
WorkerApply(horizon) ==
    /\ wpc = "apply"
    /\ \E now \in SteadyNow(clock, horizon) :
          /\ clock' = now
          /\ store' = ApplyStore(store, cmd, now)
          /\ slots' = IF cmd.type = GET
                      THEN SetValue(slots, cmd.result,
                                    GetResult(store, cmd, now))
                      ELSE slots
          /\ outcome' = IF cmd.type = GET
                        THEN [outcome EXCEPT ![cmd.result] =
                                IF GetFound(store, cmd, now) THEN "found"
                                                             ELSE "notfound"]
                        ELSE outcome
          /\ appliedAt' = Append(appliedAt, now)
    /\ applied' = Append(applied, cmd)
    /\ cmd' = NoCmd
    /\ wpc' = "lock"
    /\ UNCHANGED <<commandQueue, mutex, stop, cpc, ccmd, dpc>>
    /\ UNCHANGED <<enq, returned, pre, enqAtStop, queueAtStop>>

\* ------------------------------------------- the alternative worker loop
\* The older workerLoop of src/unnamed/part_000.  Its constructor, destructor,
\* callers, lock and cv.wait are those of the loop above (the wait predicate
\* is the same disjunction); its store maps a key to a plain string.

\* the values an uninitialised cmd.type can be read as: an enumerator the
\* loop tests for, or none of them
AltTypes == {SET, GET, DEL, "NONE"}

\* the promises after the drain loop: one set_value("") for each GET of q
DrainSlots(sl, q) ==
    [i \in DOMAIN sl |->
        IF \E x \in 1 .. Len(q) : q[x].result = i /\ q[x].type = GET
        THEN [n |-> sl[i].n + 1, val |-> ""]
        ELSE sl[i]]

\* variant: the drain loop only pops, without c.result.set_value("")
AltWorkerDrainSilent ==
    /\ wpc = "check"
    /\ WaitPred
    /\ stop
    /\ commandQueue' = <<>>
    /\ mutex' = "none"
    /\ wpc' = "done"
    /\ UNCHANGED <<store, stop, cmd, clock, cpc, ccmd, dpc, slots>>
    /\ UNCHANGED histVars

\* if (stop) { while (!commandQueue.empty()) { ... pop } break; }, all of it
\* under the lock
AltWorkerDrain ==
    /\ wpc = "check"
    /\ WaitPred
    /\ stop
    /\ slots' = DrainSlots(slots, commandQueue)
    /\ commandQueue' = <<>>
    /\ mutex' = "none"
    /\ wpc' = "done"
    /\ UNCHANGED <<store, stop, cmd, clock, cpc, ccmd, dpc>>
    /\ UNCHANGED histVars

\* stop is false: the block ends and the lock is released with nothing taken
\* from the queue; cmd is the Command declared at the top of the loop body,
\* its type never assigned, its key and value empty strings
AltWorkerPass ==
    /\ wpc = "check"
    /\ WaitPred
    /\ ~stop
    /\ \E ty \in AltTypes : cmd' = Command(ty, "", "", 0, 0)
    /\ mutex' = "none"
    /\ wpc' = "apply"
    /\ UNCHANGED <<store, commandQueue, stop, clock, cpc, ccmd, dpc, slots>>
    /\ UNCHANGED histVars

\* the if / else if chain on cmd.type; the GET branch sets the promise of
\* the local cmd, which no caller holds a future of
AltWorkerApply ==
    /\ wpc = "apply"
    /\ store' = CASE cmd.type = SET -> Put(store, cmd.key, cmd.value)
                  [] cmd.type = DEL -> Erase(store, cmd.key)
                  [] OTHER -> store
    /\ cmd' = NoCmd
    /\ wpc' = "lock"
    /\ UNCHANGED <<commandQueue, mutex, stop, clock, cpc, ccmd, dpc, slots>>
    /\ UNCHANGED histVars

\* ------------------------------------------------------------ the callers
\* variant: the caller also applies its command to the store itself, after
\* the push
PushWriteThrough(t, c) ==
    /\ cpc[t] = "idle"
    /\ dpc # "joined"
    /\ Len(enq) < MaxCmds
    /\ mutex = "none"
    /\ LET pushed == [c EXCEPT !.result = Len(enq) + 1]
       IN /\ commandQueue' = QueuePush(commandQueue, pushed)
          /\ enq' = Append(enq, pushed)
          /\ ccmd' = [ccmd EXCEPT ![t] = pushed]
    /\ store' = ApplyStore(store, c, clock)
    /\ slots' = Append(slots, [n |-> 0, val |-> ""])
    /\ outcome' = Append(outcome, "none")
    /\ pre' = Append(pre, returned)
    /\ cpc' = [cpc EXCEPT ![t] = "notify"]
    /\ UNCHANGED <<mutex, stop, wpc, cmd, clock, dpc>>
    /\ UNCHANGED <<applied, appliedAt, returned, enqAtStop, queueAtStop>>

\* set / setWithTTL / get / del up to the end of the lock_guard block:
\* Command cmd; cmd.type = ...; { lock; commandQueue.push(std::move(cmd)); }
Push(t, c) ==
    /\ cpc[t] = "idle"
    /\ dpc # "joined"
    /\ Len(enq) < MaxCmds
    /\ mutex = "none"
    /\ LET pushed == [c EXCEPT !.result = Len(enq) + 1]
       IN /\ commandQueue' = QueuePush(commandQueue, pushed)
          /\ enq' = Append(enq, pushed)
          /\ ccmd' = [ccmd EXCEPT ![t] = pushed]
    /\ slots' = Append(slots, [n |-> 0, val |-> ""])
    /\ outcome' = Append(outcome, "none")
    /\ pre' = Append(pre, returned)
    /\ cpc' = [cpc EXCEPT ![t] = "notify"]
    /\ UNCHANGED <<store, mutex, stop, wpc, cmd, clock, dpc>>
    /\ UNCHANGED <<applied, appliedAt, returned, enqAtStop, queueAtStop>>

\* cv.notify_one(); set, setWithTTL and del return, get goes on to future.get()
Notify(t) ==
    /\ cpc[t] = "notify"
    /\ wpc' = NotifyOne(wpc)
    /\ IF ccmd[t].type = GET
       THEN /\ cpc' = [cpc EXCEPT ![t] = "wait"]
            /\ UNCHANGED <<ccmd, returned>>
       ELSE /\ cpc' = [cpc EXCEPT ![t] = "idle"]
            /\ ccmd' = [ccmd EXCEPT ![t] = NoCmd]
            /\ returned' = returned \cup {ccmd[t].result}
    /\ UNCHANGED <<store, commandQueue, mutex, stop, cmd, clock, dpc, slots>>
    /\ UNCHANGED <<enq, applied, appliedAt, outcome, pre, enqAtStop,
                   queueAtStop>>

\* return future.get(): blocks until the promise has a value
Return(t) ==
    /\ cpc[t] = "wait"
    /\ slots[ccmd[t].result].n > 0
    /\ cpc' = [cpc EXCEPT ![t] = "idle"]
    /\ ccmd' = [ccmd EXCEPT ![t] = NoCmd]
    /\ returned' = returned \cup {ccmd[t].result}
    /\ UNCHANGED <<store, commandQueue, mutex, stop, wpc, cmd, clock, dpc,
                   slots>>
    /\ UNCHANGED <<enq, applied, appliedAt, outcome, pre, enqAtStop,
                   queueAtStop>>

\* ------------------------------------------------------------ the destructor
\* { lock_guard lock(queueMutex); stop = true; }
DtorStop ==
    /\ dpc = "idle"
    /\ mutex = "none"
    /\ stop' = TRUE
    /\ enqAtStop' = Len(enq)
    /\ queueAtStop' = Len(commandQueue)
    /\ dpc' = "notify"
    /\ UNCHANGED <<store, commandQueue, mutex, wpc, cmd, clock, cpc, ccmd,
                   slots>>
    /\ UNCHANGED <<enq, applied, appliedAt, outcome, returned, pre>>

\* cv.notify_one();
DtorNotify ==
    /\ dpc = "notify"
    /\ wpc' = NotifyOne(wpc)
    /\ dpc' = "join"
    /\ UNCHANGED <<store, commandQueue, mutex, stop, cmd, clock, cpc, ccmd,
                   slots>>
    /\ UNCHANGED histVars

\* worker.join(); returns once workerLoop has returned
DtorJoin ==
    /\ dpc = "join"
    /\ wpc = "done"
    /\ dpc' = "joined"
    /\ UNCHANGED <<store, commandQueue, mutex, stop, wpc, cmd, clock, cpc,
                   ccmd, slots>>
    /\ UNCHANGED histVars

\* ------------------------------------------------------------ specifications
Set(k, v) == Command(SET, k, v, 0, 0)
SetWithTTL(k, v, ttl) == Command(SET_TTL, k, v, ttl, 0)
Get(k) == Command(GET, k, "", 0, 0)
Del(k) == Command(DEL, k, "", 0, 0)

\* calls of the threaded behaviours.  None of them is a setWithTTL, so no
\* entry has hasTTL and the time the worker reads is never looked at: these
\* behaviours all read the clock at 0.
ThreadCmds == {Set("k1", "a"), Set("k1", "b"), Get("k1"), Del("k1")}

\* calls of the behaviours with a shutdown
ShutdownCmds == {Set("k1", "a"), Get("k1")}

\* calls of the single-threaded behaviours
StoreCmds ==
    {Set("k1", ""), Set("k1", "a"), Get("k1"), Del("k1")}
    \cup {SetWithTTL("k1", "b", ttl) : ttl \in TTLs}
    \cup {SetWithTTL("k2", "a", 1), Get("k2")}

Worker(horizon) ==
    \/ WorkerLock
    \/ WorkerPark
    \/ WorkerSpuriousWake
    \/ WorkerBreak
    \/ WorkerDequeue
    \/ WorkerApply(horizon)

Caller(t, C) ==
    \/ \E c \in C : Push(t, c)
    \/ Notify(t)
    \/ Return(t)

Destructor ==
    \/ DtorStop
    \/ DtorNotify
    \/ DtorJoin

\* several caller threads and the worker; the store object outlives them
Next ==
    \/ WorkerLock
    \/ WorkerPark
    \/ WorkerSpuriousWake
    \/ WorkerDequeue
    \/ WorkerApply(0)
    \/ \E t \in Callers : Caller(t, ThreadCmds)

Spec == Init /\ [][Next]_vars

\* several caller threads, the worker and a thread that destroys the store
NextShutdown ==
    \/ Worker(0)
    \/ \E t \in Callers : Caller(t, ShutdownCmds)
    \/ Destructor

ShutdownSpec == Init /\ [][NextShutdown]_vars

\* every thread that can take a step eventually takes one; nobody has to
\* start a call or the destructor, and no spurious wake-up has to happen
Fairness ==
    /\ WF_vars(WorkerLock)
    /\ WF_vars(WorkerPark)
    /\ WF_vars(WorkerBreak)
    /\ WF_vars(WorkerDequeue)
    /\ WF_vars(WorkerApply(0))
    /\ \A t \in Callers : WF_vars(Notify(t)) /\ WF_vars(Return(t))
    /\ WF_vars(DtorNotify)
    /\ WF_vars(DtorJoin)

FairSpec == Init /\ [][NextShutdown]_vars /\ Fairness

\* one caller thread, the worker and the destructor, every thread scheduled
\* fairly
NextLife ==
    \/ Worker(0)
    \/ Caller("t1", ShutdownCmds)
    \/ Destructor

LifeSpec == Init /\ [][NextLife]_vars /\ Fairness

\* one caller thread and the worker, with time passing
NextStore ==
    \/ WorkerLock
    \/ WorkerPark
    \/ WorkerSpuriousWake
    \/ WorkerDequeue
    \/ WorkerApply(MaxTime)
    \/ Caller("t1", StoreCmds)

StoreSpec == Init /\ [][NextStore]_vars

\* calls of the concurrent writers: each thread sets keys of its own
WriterKeys(t) == IF t = "t1" THEN {"k1", "k3"} ELSE {"k2", "k4"}

WriterCmds(t) == {Set(k, v) : k \in WriterKeys(t), v \in {"a", "b"}}

\* no call so far has used the key of command c
FreshKey(c) == \A i \in 1 .. Len(enq) : enq[i].key # c.key

\* several caller threads that set pairwise distinct keys, and the worker
NextWriters ==
    \/ WorkerLock
    \/ WorkerPark
    \/ WorkerSpuriousWake
    \/ WorkerDequeue
    \/ WorkerApply(0)
    \/ \E t \in Callers :
          \/ \E c \in WriterCmds(t) : FreshKey(c) /\ Push(t, c)
          \/ Notify(t)

WritersSpec == Init /\ [][NextWriters]_vars

\* calls on two keys with time-to-live: k1 expires as soon as it is written,
\* k2 a second later
ExpiryCmds ==
    {SetWithTTL("k1", "a", 0), SetWithTTL("k2", "b", 1), Set("k1", "c"),
     Get("k1"), Get("k2"), Del("k1")}

\* one caller thread and the worker on two keys, with time passing
NextExpiry ==
    \/ WorkerLock
    \/ WorkerPark
    \/ WorkerSpuriousWake
    \/ WorkerDequeue
    \/ WorkerApply(MaxTime)
    \/ Caller("t1", ExpiryCmds)

ExpirySpec == Init /\ [][NextExpiry]_vars

\* calls on one key with time-to-live
ClockCmds ==
    {SetWithTTL("k1", "a", 1), SetWithTTL("k1", "b", 0), Get("k1"),
     Del("k1")}

\* one caller thread makes all its calls before the worker's clock has moved
\* from 0, and the worker applies them as time passes: every command is appended at time
\* 0 and waits in the queue until the time the worker reads for it
NextClock ==
    \/ WorkerLock
    \/ WorkerPark
    \/ WorkerSpuriousWake
    \/ WorkerDequeue
    \/ WorkerApply(MaxTime)
    \/ \E c \in ClockCmds : clock = 0 /\ Push("t1", c)
    \/ Notify("t1")
    \/ Return("t1")

ClockSpec == Init /\ [][NextClock]_vars

\* the alternative worker loop with two caller threads and the destructor
NextAlt ==
    \/ WorkerLock
    \/ WorkerPark
    \/ WorkerSpuriousWake
    \/ AltWorkerDrain
    \/ AltWorkerPass
    \/ AltWorkerApply
    \/ \E t \in Callers : Caller(t, ShutdownCmds)
    \/ Destructor

\* every thread that can take a step eventually takes one
AltFairness ==
    /\ WF_vars(WorkerLock)
    /\ WF_vars(WorkerPark)
    /\ WF_vars(AltWorkerDrain)
    /\ WF_vars(AltWorkerPass)
    /\ WF_vars(AltWorkerApply)
    /\ \A t \in Callers : WF_vars(Notify(t)) /\ WF_vars(Return(t))
    /\ WF_vars(DtorNotify)
    /\ WF_vars(DtorJoin)

AltSpec == Init /\ [][NextAlt]_vars /\ AltFairness

\* ------------------------------------------------------------ properties
\* the command the worker has dequeued and not yet applied
InFlight == IF wpc = "apply" THEN <<cmd>> ELSE <<>>

\* whether command c writes or removes key k
WritesKey(c, k) == c.type \in {SET, SET_TTL, DEL} /\ c.key = k

\* C1: the commands are applied in the order they were appended, one at a
\* time: the appended commands are, in order, those applied, then the one
\* command the worker holds (if any), then those still in the queue.
C1_FifoOrder == enq = applied \o InFlight \o commandQueue

\* two commands of different threads applied, a third one waiting
C1_Witness ==
    /\ Len(applied) = 2
    /\ applied[1].value # applied[2].value
    /\ commandQueue # <<>>
    /\ \E t \in Callers : cpc[t] = "notify" /\ ccmd[t].result = 1

\* C2: a get appended after set(k, v) has returned, with no other set,
\* setWithTTL or del on k appended between the two, returns v; so after
\* set(k, "a") and then set(k, "b") have returned, get(k) returns "b".
C2_ReadAfterWrite ==
    \A g \in returned :
        enq[g].type = GET =>
            \A s \in pre[g] :
                (/\ enq[s].type = SET
                 /\ enq[s].key = enq[g].key
                 /\ \A w \in (s + 1) .. (g - 1) : ~WritesKey(enq[w], enq[g].key))
                => slots[g].val = enq[s].value

\* set "a" returned before set "b" was appended, set "b" returned before the
\* get was appended, and the get has returned "b"
C2_Witness ==
    /\ Len(enq) = 3
    /\ enq[1] = Command(SET, "k1", "a", 0, 1)
    /\ enq[2] = Command(SET, "k1", "b", 0, 2)
    /\ enq[3].type = GET
    /\ 1 \in pre[2]
    /\ 2 \in pre[3]
    /\ 3 \in returned
    /\ slots[3].val = "b"

\* a thread is about to call cv.notify_one()
NotifyPending == dpc = "notify" \/ \E t \in Callers : cpc[t] = "notify"

\* the number of commands appended while the store was alive, that is
\* before the destructor set stop
AppendedAlive == IF stop THEN enqAtStop ELSE Len(enq)

\* the commands appended while the store was alive are applied and the
\* calls of the gets among them have returned
AliveServed ==
    \A i \in 1 .. AppendedAlive :
        /\ Len(applied) >= i
        /\ enq[i].type = GET => i \in returned

\* C3: no wake-up is lost.  The worker is never parked on the condition
\* variable with the queue non-empty or stop set unless a notify_one is still
\* to come; and, with every thread scheduled fairly, whatever has been
\* appended while the store is alive (before the destructor has set stop) is
\* eventually applied and, if it is a get, its call eventually returns.
C3_NoLostWakeup ==
    /\ [](wpc = "parked" /\ WaitPred => NotifyPending)
    /\ []<>AliveServed

\* the worker is parked, a command was appended behind its back and the
\* notification of the caller is still to come
C3_Witness ==
    /\ wpc = "parked"
    /\ commandQueue # <<>>
    /\ \E t \in Callers : cpc[t] = "notify" /\ ccmd[t].type = GET

\* the store after the first n applied commands, each at the time it was
\* applied
RECURSIVE StoreAfter(_)
StoreAfter(n) ==
    IF n = 0 THEN <<>>
    ELSE ApplyStore(StoreAfter(n - 1), applied[n], appliedAt[n])

\* the commands that were in the queue when the destructor set stop
QueuedAtStop == (enqAtStop - queueAtStop + 1) .. enqAtStop

\* C4: when the worker has left its loop, every command appended before the
\* destructor set stop has been applied, in the order of appending, and every
\* get among them has been answered once, with what the store held at its
\* turn (the value, or the not-found string), shutdown or not.
C4_DrainOnShutdown ==
    wpc = "done" =>
        /\ Len(applied) >= enqAtStop
        /\ \A i \in 1 .. enqAtStop : applied[i] = enq[i]
        /\ \A i \in 1 .. enqAtStop :
              enq[i].type = GET =>
                  /\ slots[i].n = 1
                  /\ slots[i].val =
                        GetResult(StoreAfter(i - 1), applied[i], appliedAt[i])

\* a get that was in the queue when stop was set has been answered with the
\* value of its key, and the worker has left
C4_Witness ==
    /\ wpc = "done"
    /\ \E i \in QueuedAtStop :
          /\ enq[i].type = GET
          /\ outcome[i] = "found"
          /\ slots[i].val = "a"
          /\ i \in returned

\* C5: once the worker has left its loop (Stopped) no command is accepted
\* any more: nothing is appended to the queue.
C5_RejectAfterStopped == [][wpc = "done" => enq' = enq]_vars

\* C6: the promise of a command is set at most once, never for a set,
\* setWithTTL or del, and once the worker has left its loop the promise of
\* every get has been set exactly once.
C6_FulfilledExactlyOnce ==
    /\ \A i \in 1 .. Len(enq) :
          /\ slots[i].n <= 1
          /\ enq[i].type # GET => slots[i].n = 0
    /\ wpc = "done" =>
          \A i \in 1 .. Len(enq) : enq[i].type = GET => slots[i].n = 1

\* the applied gets
AppliedGets == {j \in 1 .. Len(applied) : applied[j].type = GET}

\* the last set, setWithTTL or del on key k applied before the j-th applied
\* command, 0 if there is none
LastWrite(k, j) ==
    LET W == {i \in 1 .. (j - 1) : WritesKey(applied[i], k)}
    IN IF W = {} THEN 0 ELSE CHOOSE i \in W : \A x \in W : x <= i

\* the answer of the j-th applied command, a get
Answer(j) == slots[applied[j].result].val

\* C7: the answer of a get that found its key differs from the answer of a
\* get whose key was absent or expired.
C7_NotFoundDistinct ==
    \A i, j \in 1 .. Len(enq) :
        outcome[i] = "found" /\ outcome[j] = "notfound"
            => slots[i].val # slots[j].val

\* C8: when the last write on k before a get(k) is a setWithTTL(k, v, ttl)
\* applied at time t, the get answers v and keeps the entry if it is applied
\* before t + ttl, and answers not-found and leaves k absent from the store if
\* it is applied at t + ttl or later.
C8_TtlExpiry ==
    \A j \in AppliedGets :
        LET k == applied[j].key
            i == LastWrite(k, j)
        IN (i > 0 /\ applied[i].type = SET_TTL) =>
            LET expiry == appliedAt[i] + applied[i].ttlSeconds * TicksPerSecond
            IN /\ appliedAt[j] < expiry =>
                    /\ outcome[applied[j].result] = "found"
                    /\ Answer(j) = applied[i].value
                    /\ j = Len(applied) =>
                          /\ k \in DOMAIN store
                          /\ store[k] = ValueEntry(applied[i].value, TRUE, expiry)
               /\ appliedAt[j] >= expiry =>
                    /\ outcome[applied[j].result] = "notfound"
                    /\ Answer(j) = NotFound
                    /\ j = Len(applied) => k \notin DOMAIN store

\* setWithTTL with a ttl of one second, a get before the second is over that
\* answers the value, a get when it is over that evicts the key
C8_Witness ==
    /\ Len(applied) = 3
    /\ applied[1] = Command(SET_TTL, "k1", "b", 1, 1)
    /\ applied[2].type = GET
    /\ applied[3].type = GET
    /\ appliedAt[2] > appliedAt[1]
    /\ appliedAt[2] < appliedAt[1] + TicksPerSecond
    /\ appliedAt[3] >= appliedAt[1] + TicksPerSecond
    /\ slots[2].val = "b"
    /\ outcome[3] = "notfound"
    /\ "k1" \notin DOMAIN store

\* C9: when the last write on k before a get(k) is a plain set(k, v), the get
\* answers v whatever the time, also when an earlier setWithTTL had given k
\* an expiry.
C9_SetClearsExpiry ==
    \A j \in AppliedGets :
        LET k == applied[j].key
            i == LastWrite(k, j)
        IN (i > 0 /\ applied[i].type = SET) =>
            /\ outcome[applied[j].result] = "found"
            /\ Answer(j) = applied[i].value

\* setWithTTL, then set on the same key, then a get applied after the expiry
\* the setWithTTL had set: it answers the value of the set
C9_Witness ==
    /\ Len(applied) = 3
    /\ applied[1] = Command(SET_TTL, "k1", "b", 1, 1)
    /\ applied[2] = Command(SET, "k1", "a", 0, 2)
    /\ applied[3].type = GET
    /\ appliedAt[3] >= appliedAt[1] + TicksPerSecond
    /\ slots[3].val = "a"
    /\ store["k1"].hasTTL = FALSE

\* C10: when the last write on k before a get(k) is a setWithTTL with a ttl
\* of 0 or less, the get answers not-found, never the value branch, and k is
\* absent from the store afterwards.
C10_NonPositiveTtl ==
    \A j \in AppliedGets :
        LET k == applied[j].key
            i == LastWrite(k, j)
        IN (i > 0 /\ applied[i].type = SET_TTL /\ applied[i].ttlSeconds <= 0) =>
            /\ outcome[applied[j].result] = "notfound"
            /\ Answer(j) = NotFound
            /\ j = Len(applied) => k \notin DOMAIN store

\* setWithTTL with ttl 0, a get at the very same clock reading and a second
\* get: both answer not-found and the key is gone
C10_Witness ==
    /\ Len(applied) = 3
    /\ applied[1] = Command(SET_TTL, "k1", "b", 0, 1)
    /\ applied[2].type = GET
    /\ applied[3].type = GET
    /\ appliedAt[2] = appliedAt[1]
    /\ outcome[2] = "notfound"
    /\ outcome[3] = "notfound"
    /\ "k1" \notin DOMAIN store

\* the step is the worker applying the command it holds
ApplyStep == wpc = "apply" /\ wpc' = "lock"

\* C11: a get applied while its key is absent from the store sets its promise
\* once, to the not-found string (a value, not an exception), and leaves
\* the store as it was, the key still absent.
C11_AbsentGet ==
    [][(ApplyStep /\ cmd.type = GET /\ cmd.key \notin DOMAIN store) =>
          /\ slots'[cmd.result] = [n |-> 1, val |-> NotFound]
          /\ outcome'[cmd.result] = "notfound"
          /\ store' = store
          /\ cmd.key \notin DOMAIN store']_vars

\* get on the empty store: answered not-found, returned, store still empty
C11_Witness ==
    /\ Len(applied) = 1
    /\ applied[1].type = GET
    /\ slots[1] = [n |-> 1, val |-> NotFound]
    /\ 1 \in returned
    /\ store = <<>>

\* C12: a del applied while its key is absent leaves the store and every
\* promise as they were, so that a del right after a del of the same key
\* changes nothing; a del applied while its key is present removes that key
\* and leaves the entry of every other key as it was.
C12_DelIdempotent ==
    [][(ApplyStep /\ cmd.type = DEL) =>
          /\ slots' = slots
          /\ cmd.key \notin DOMAIN store => store' = store
          /\ (/\ applied # <<>>
              /\ applied[Len(applied)].type = DEL
              /\ applied[Len(applied)].key = cmd.key) => store' = store
          /\ DOMAIN store' = (DOMAIN store) \ {cmd.key}
          /\ \A k \in DOMAIN store' : store'[k] = store[k]]_vars

\* with another key in the store, a del of an absent key and the same del
\* again: the store still holds the other key only
C12_Witness ==
    /\ Len(applied) = 3
    /\ applied[1].type = SET_TTL
    /\ applied[1].key = "k2"
    /\ applied[2] = Command(DEL, "k1", "", 0, 2)
    /\ applied[3] = Command(DEL, "k1", "", 0, 3)
    /\ DOMAIN store = {"k2"}
    /\ returned = {1, 2, 3}

\* every call has returned, the queue is empty and the worker is parked
Quiescent ==
    /\ \A t \in Callers : cpc[t] = "idle"
    /\ commandQueue = <<>>
    /\ wpc = "parked"

\* C13: when threads have set pairwise distinct keys, all calls have returned
\* and the queue is drained, the store holds exactly one entry for each call,
\* under the key and with the value of that call.
C13_NoLostWrites ==
    Quiescent =>
        /\ Cardinality(DOMAIN store) = Len(enq)
        /\ DOMAIN store = {enq[i].key : i \in 1 .. Len(enq)}
        /\ \A i \in 1 .. Len(enq) :
              store[enq[i].key] = ValueEntry(enq[i].value, FALSE, 0)

\* MaxCmds sets of both threads, the second appended before the first had
\* returned, all applied
C13_Witness ==
    /\ Quiescent
    /\ Len(enq) = MaxCmds
    /\ 1 \notin pre[2]
    /\ \E i, j \in 1 .. Len(enq) :
          enq[i].key \in WriterKeys("t1") /\ enq[j].key \in WriterKeys("t2")
    /\ Cardinality(DOMAIN store) = MaxCmds

\* the promises of the commands in a sequence of commands
Ids(q) == {q[i].result : i \in 1 .. Len(q)}

\* C14: each appended command is consumed exactly once.  No command is
\* applied twice, every applied command is one that was appended, and a
\* command the worker has taken or applied is no longer in the queue.
C14_ConsumedOnce ==
    /\ \A i, j \in 1 .. Len(applied) :
          applied[i].result = applied[j].result => i = j
    /\ \A i \in 1 .. Len(applied) :
          /\ applied[i].result \in 1 .. Len(enq)
          /\ applied[i] = enq[applied[i].result]
    /\ Ids(commandQueue) \cap (Ids(applied) \cup Ids(InFlight)) = {}
    /\ Ids(InFlight) \cap Ids(applied) = {}
    /\ \A i, j \in 1 .. Len(commandQueue) :
          commandQueue[i].result = commandQueue[j].result => i = j

\* one command applied, one held by the worker, one in the queue
C14_Witness ==
    /\ Len(applied) = 1
    /\ wpc = "apply"
    /\ Len(commandQueue) = 1
    /\ cmd = enq[2]
    /\ commandQueue[1] = enq[3]

\* C15: only the worker touches the store.  A step that changes the store is
\* the worker applying its command, and every step of a caller thread
\* (append under the mutex, notify, return from the future) leaves the store
\* as it was.
C15_StoreOwnedByWorker ==
    [][/\ store' # store => ApplyStep
       /\ (cpc' # cpc \/ ccmd' # ccmd) => store' = store]_vars

\* both callers are inside a call while the worker is about to apply a
\* command to a store that already has an entry
C15_Witness ==
    /\ wpc = "apply"
    /\ store # <<>>
    /\ cmd.type \in {SET, DEL}
    /\ \A t \in Callers : cpc[t] # "idle"

\* C16: set and del do not wait for the worker.  The worker owns the mutex
\* only between locking it and parking, leaving or taking the head command,
\* never while it applies a command or sets a promise; a caller can append
\* whenever the mutex is free, and once it has appended a set or del it can
\* notify and return whatever the worker and the queue are doing.
C16_FireAndForget ==
    /\ mutex = "worker" => wpc = "check"
    /\ wpc = "apply" => mutex = "none"
    /\ \A t \in Callers :
          /\ (cpc[t] = "idle" /\ Len(enq) < MaxCmds /\ mutex = "none")
                => ENABLED (\E c \in ThreadCmds : Push(t, c))
          /\ (cpc[t] = "notify" /\ ccmd[t].type # GET) => ENABLED Notify(t)

\* a set has returned while the worker is still applying the command before
\* it
C16_Witness ==
    /\ Len(enq) >= 2
    /\ enq[2].type = SET
    /\ 2 \in returned
    /\ applied = <<>>
    /\ wpc = "apply"
    /\ commandQueue = <<enq[2]>>

\* the stage of the executor: 0 Running, 1 Draining (stop is set and the
\* worker is still in its loop), 2 Stopped (workerLoop has returned)
Stage == IF wpc = "done" THEN 2 ELSE IF stop THEN 1 ELSE 0

\* C17: the executor goes Running -> Draining -> Stopped and never back.
\* stop is set only by the destructor's first step and is never reset; the
\* worker leaves its loop only from a state where stop is true and the queue
\* is empty, and never re-enters it; and once stop is set (callers append
\* only finitely often), the worker leaves and the destructor's join returns:
\* stop is never reset, so "again and again, stop implies joined" says that
\* every behaviour in which stop gets set reaches the return of join.
C17_LifeCycle ==
    /\ [][/\ Stage' >= Stage
          /\ stop => stop'
          /\ stop' # stop => (dpc = "idle" /\ dpc' = "notify")
          /\ wpc = "done" => wpc' = "done"
          /\ (wpc # "done" /\ wpc' = "done") =>
                 /\ stop /\ commandQueue = <<>>
                 /\ stop' /\ commandQueue' = <<>>]_vars
    /\ [](dpc = "joined" => Stage = 2)
    /\ []<>(stop => dpc = "joined")

\* the destructor found commands in the queue, the worker applied them all
\* and left, and join has returned
C17_Witness ==
    /\ dpc = "joined"
    /\ wpc = "done"
    /\ stop
    /\ queueAtStop >= 1
    /\ Len(applied) = Len(enq)
    /\ commandQueue = <<>>

\* set number s2 was appended while the call of the earlier set s1 on the
\* same key had not returned: the two calls overlap (and so come from two
\* threads, a thread having one call at a time)
Overlapping(s1, s2) ==
    /\ s1 < s2
    /\ enq[s1].type = SET /\ enq[s2].type = SET
    /\ enq[s1].key = enq[s2].key
    /\ s1 \notin pre[s2]

\* C18: overlapping sets on one key resolve by queue order.  Once both are
\* applied, and until a later write on the key is applied, the store holds
\* the value of the one appended later; a get on the key appended after both
\* (with no write on the key in between) is answered with that value; and
\* whatever the store holds under a key is the value of a set applied on
\* that key, so with only set(k, a) and set(k, b) issued it is a or b.
C18_QueueOrderWins ==
    /\ \A s1, s2 \in 1 .. Len(enq) :
          Overlapping(s1, s2) =>
              LET k == enq[s2].key
              IN /\ (/\ Len(applied) >= s2
                     /\ \A w \in (s2 + 1) .. Len(applied) :
                           ~WritesKey(applied[w], k))
                        => k \in DOMAIN store
                             /\ store[k].value = enq[s2].value
                 /\ \A g \in (s2 + 1) .. Len(enq) :
                       (/\ enq[g].type = GET /\ enq[g].key = k
                        /\ \A w \in (s2 + 1) .. (g - 1) :
                              ~WritesKey(enq[w], k)
                        /\ slots[g].n = 1)
                       => slots[g].val = enq[s2].value
    /\ \A k \in DOMAIN store :
          \E i \in 1 .. Len(applied) :
              /\ applied[i].type = SET /\ applied[i].key = k
              /\ applied[i].value = store[k].value

\* set(k1, "b") and set(k1, "a") overlapped, "a" was appended later, the
\* store holds "a" and a get appended after both has returned "a"
C18_Witness ==
    /\ Len(enq) = 3
    /\ enq[1] = Command(SET, "k1", "b", 0, 1)
    /\ enq[2] = Command(SET, "k1", "a", 0, 2)
    /\ Overlapping(1, 2)
    /\ enq[3].type = GET
    /\ slots[3] = [n |-> 1, val |-> "a"]
    /\ 3 \in returned
    /\ store["k1"].value = "a"

\* C19: expiry is never proactive.  In every step, an entry of the store is
\* removed or replaced only by the worker applying a command on that same
\* key: a del, a set or setWithTTL, or a get that finds it expired.  Steps in
\* which time passes, and commands on other keys, leave it as it is, expired
\* or not.
C19_LazyExpiry ==
    [][\A k \in DOMAIN store :
          (k \notin DOMAIN store' \/ store'[k] # store[k]) =>
              /\ ApplyStep
              /\ cmd.key = k
              /\ \/ cmd.type \in {SET, SET_TTL, DEL}
                 \/ cmd.type = GET /\ Expired(store[k], clock')]_vars

\* k1 expired when it was written; later, with more time gone, a command on
\* k2 was applied, and k1 is still in the store
C19_Witness ==
    /\ Len(applied) = 2
    /\ applied[1] = Command(SET_TTL, "k1", "a", 0, 1)
    /\ applied[2].key = "k2"
    /\ appliedAt[2] > appliedAt[1]
    /\ "k1" \in DOMAIN store
    /\ Expired(store["k1"], clock)
    /\ store["k1"] = ValueEntry("a", TRUE, appliedAt[1])

\* C20: a get changes the store only by evicting its own key when expired.
\* Applied to an absent key or to a present, unexpired key it leaves the
\* whole store as it was; applied to an expired key it removes that key and
\* no other, and the entries of all other keys keep value and expiry.
C20_GetFrame ==
    [][(ApplyStep /\ cmd.type = GET) =>
          IF cmd.key \in DOMAIN store /\ Expired(store[cmd.key], clock')
          THEN /\ DOMAIN store' = (DOMAIN store) \ {cmd.key}
               /\ \A k \in DOMAIN store' : store'[k] = store[k]
          ELSE store' = store]_vars

\* k2 and k1 were in the store, both past their expiry, when get(k1) was
\* applied: k1 is gone, k2 is there as it was written
C20_Witness ==
    /\ Len(applied) = 3
    /\ applied[1] = Command(SET_TTL, "k2", "b", 1, 1)
    /\ applied[2] = Command(SET_TTL, "k1", "a", 0, 2)
    /\ applied[3] = Command(GET, "k1", "", 0, 3)
    /\ slots[3] = [n |-> 1, val |-> NotFound]
    /\ DOMAIN store = {"k2"}
    /\ store["k2"] = ValueEntry("b", TRUE, appliedAt[1] + Seconds(1))
    /\ appliedAt[3] >= store["k2"].expireAt

\* C21: the time used for a time-to-live is the one the worker reads when it
\* applies the command.  A step that appends a command reads no clock and
\* leaves the store alone; the step that applies a setWithTTL writes the
\* expiry (time read in that step) + ttl; the step that applies a get on an
\* entry with an expiry answers the value exactly when the time read in that
\* step is before the expiry.  With every command appended at time 0, the
\* time counted is the one of the application, however long the wait.
C21_WorkerClock ==
    [][/\ Len(enq') > Len(enq) => (clock' = clock /\ store' = store)
       /\ ApplyStep =>
             /\ clock' >= clock
             /\ appliedAt' = Append(appliedAt, clock')
       /\ (ApplyStep /\ cmd.type = SET_TTL) =>
             store'[cmd.key] =
                 ValueEntry(cmd.value, TRUE,
                            clock' + cmd.ttlSeconds * TicksPerSecond)
       /\ (ApplyStep /\ cmd.type = GET /\ cmd.key \in DOMAIN store
             /\ store[cmd.key].hasTTL) =>
             /\ clock' < store[cmd.key].expireAt =>
                   slots'[cmd.result] = [n |-> 1, val |-> store[cmd.key].value]
             /\ clock' >= store[cmd.key].expireAt =>
                   /\ slots'[cmd.result] = [n |-> 1, val |-> NotFound]
                   /\ cmd.key \notin DOMAIN store']_vars

\* setWithTTL(k1, "a", 1), appended at time 0, was applied later; a get was
\* applied a full second or more after time 0 and still within a second of
\* the application of the setWithTTL: it answered "a"
C21_Witness ==
    /\ Len(applied) = 2
    /\ applied[1] = Command(SET_TTL, "k1", "a", 1, 1)
    /\ applied[2] = Command(GET, "k1", "", 0, 2)
    /\ appliedAt[1] > 0
    /\ appliedAt[2] >= TicksPerSecond
    /\ appliedAt[2] < appliedAt[1] + TicksPerSecond
    /\ slots[2] = [n |-> 1, val |-> "a"]
    /\ 2 \in returned
    /\ store["k1"] = ValueEntry("a", TRUE, appliedAt[1] + TicksPerSecond)

\* the i-th applied command wrote key k over an entry that had expired and
\* was still in the store: the write before it on k is a setWithTTL whose
\* expiry had passed when i was applied, and no get on k in between was
\* applied late enough to evict it
OverwritesExpired(i, k) ==
    /\ applied[i].type \in {SET, SET_TTL}
    /\ applied[i].key = k
    /\ LET e == LastWrite(k, i)
       IN /\ e > 0
          /\ applied[e].type = SET_TTL
          /\ LET old == appliedAt[e] + Seconds(applied[e].ttlSeconds)
             IN /\ appliedAt[i] >= old
                /\ \A g \in (e + 1) .. (i - 1) :
                      ~(applied[g].type = GET /\ applied[g].key = k
                          /\ appliedAt[g] >= old)

\* C22: a write over an expired, not yet evicted entry revives the key with
\* the new data only.  A get on k whose last write is such a set(k, v2)
\* answers v2; if it is such a setWithTTL(k, v2, ttl2) with ttl2 > 0, the
\* get answers v2 while the new expiry has not passed and not-found once it
\* has; and the entry the store holds after that get is the new one, with
\* nothing of the old expiry.
C22_ReviveExpired ==
    \A j \in AppliedGets :
        LET k == applied[j].key
            i == LastWrite(k, j)
        IN (i > 0 /\ OverwritesExpired(i, k)) =>
            /\ applied[i].type = SET =>
                  /\ Answer(j) = applied[i].value
                  /\ outcome[applied[j].result] = "found"
                  /\ j = Len(applied) =>
                        /\ k \in DOMAIN store
                        /\ store[k] = ValueEntry(applied[i].value, FALSE, 0)
            /\ (applied[i].type = SET_TTL /\ applied[i].ttlSeconds > 0) =>
                  LET new == appliedAt[i] + Seconds(applied[i].ttlSeconds)
                  IN /\ appliedAt[j] < new =>
                          /\ Answer(j) = applied[i].value
                          /\ outcome[applied[j].result] = "found"
                          /\ j = Len(applied) =>
                                /\ k \in DOMAIN store
                                /\ store[k] =
                                      ValueEntry(applied[i].value, TRUE, new)
                     /\ appliedAt[j] >= new =>
                          outcome[applied[j].result] = "notfound"

\* k1 was written with a ttl of 0 and never read; later set(k1, "c") was
\* applied over the expired entry, and the get after it has returned "c"
C22_Witness ==
    /\ Len(applied) = 3
    /\ applied[1] = Command(SET_TTL, "k1", "a", 0, 1)
    /\ applied[2] = Command(SET, "k1", "c", 0, 2)
    /\ applied[3] = Command(GET, "k1", "", 0, 3)
    /\ appliedAt[2] > appliedAt[1]
    /\ OverwritesExpired(2, "k1")
    /\ slots[3] = [n |-> 1, val |-> "c"]
    /\ 3 \in returned
    /\ store["k1"] = ValueEntry("c", FALSE, 0)

\* the gets appended before the destructor set stop have been answered
\* with the empty string and their calls have returned
AltGetsReleased ==
    \A i \in 1 .. enqAtStop :
        enq[i].type = GET =>
            /\ slots[i] = [n |-> 1, val |-> ""]
            /\ i \in returned

\* C23: the alternative loop on shutdown.  The worker leaves only with stop
\* set, in one step that answers each get in the queue with "" once,
\* empties the queue and leaves the store alone; no promise is ever set
\* twice and no queued command is ever applied (the store never holds a key
\* of a call); and once stop is set, every get appended before it is
\* eventually answered and its call returns.
C23_AltDropsOnStop ==
    /\ [][(wpc # "done" /\ wpc' = "done") =>
             /\ stop
             /\ commandQueue' = <<>>
             /\ store' = store
             /\ \A i \in 1 .. Len(enq) :
                   slots'[i] =
                       IF i \in Ids(commandQueue) /\ enq[i].type = GET
                       THEN [n |-> 1, val |-> ""]
                       ELSE slots[i]]_vars
    /\ [](\A i \in 1 .. Len(enq) : slots[i].n <= 1)
    /\ [](applied = <<>> /\ \A k \in DOMAIN store : k = "")
    /\ [](wpc = "done" => \A i \in 1 .. enqAtStop : i \notin Ids(commandQueue))
    /\ []<>(stop => AltGetsReleased)

\* two gets and a set were in the queue when stop was set; the worker has
\* left, the gets have returned "" and the store holds no key of a call
C23_Witness ==
    /\ wpc = "done"
    /\ dpc = "joined"
    /\ queueAtStop >= 2
    /\ commandQueue = <<>>
    /\ \E i, j \in QueuedAtStop :
          /\ enq[i].type = GET
          /\ enq[j].type = SET
          /\ slots[i] = [n |-> 1, val |-> ""]
          /\ i \in returned
    /\ "k1" \notin DOMAIN store

====
